---------------------------- MODULE Spec2Model ----------------------------
(***************************************************************************)
(* A model of forecast_sources.sources.obr: the OBRForecast class, which   *)
(* downloads (or reuses a cached copy of) an OBR workbook, extracts the    *)
(* annual series of seven metrics from three sheets, and answers point     *)
(* lookups and two-edition comparisons.                                    *)
(*                                                                         *)
(* Python values are represented as follows.                               *)
(*   - A spreadsheet cell, as df.iloc returns it, is a record [k, n, s]:   *)
(*     k is the Python type ("nan" is the float NaN of an empty cell,      *)
(*     "str", "int", "float", "bool"), n the number and s the text.        *)
(*   - A float is held as an integer number of 1/Scale units, so that      *)
(*     int() truncates and float() rescales.                               *)
(*   - A text is a sequence of one-character strings, so that lower() and  *)
(*     the substring test `in` are computed, not assumed.                  *)
(*   - Optional[x] is a sequence: << >> is None, <<x>> is the value x.     *)
(*   - A dict is a function; its keys are its DOMAIN.                      *)
(***************************************************************************)
EXTENDS Integers, Sequences, FiniteSets, TLC

VARIABLES
    df,         \* the sheet (DataFrame) handed to the sheet-level helpers
    published,  \* what the OBR site serves: registered edition -> workbook
    cache,      \* the cache directory: edition -> bytes of its cache file
    calls,      \* history: the direct calls of _get_excel_path, in order
    snap,       \* the OBRForecast objects: slot -> object (or no object)
    thread,     \* concurrent constructions: thread -> where it is in __init__
    ret         \* what the last operation returned or raised

vars == <<df, published, cache, calls, snap, thread, ret>>

----------------------------------------------------------------------------
(* Bounds of the model *)

\* floats are held in units of 1/Scale
Scale == 2
\* most data rows of a generated sheet
MaxRows == 2
\* most blank rows above the first header row of a generated sheet
MaxTop == 10
\* threads that construct an OBRForecast at the same time
MaxThreads == 3

----------------------------------------------------------------------------
(* Program constants *)

\* range(min(10, df.shape[0]))
HEADER_ROWS == 10
\* if 2008 <= year <= 2035
YEAR_MIN == 2008
YEAR_MAX == 2035
\* df.iloc[row_idx, 1]
YEAR_COL == 1

----------------------------------------------------------------------------
(* Python values *)

None == << >>
Some(x) == <<x>>

EmptyDict == [x \in {} |-> 0]
DictSet_keep_first(d, k, v) ==
    [x \in (DOMAIN d) \cup {k} |-> IF x \in DOMAIN d THEN d[x] ELSE v]
\* d[k] = v
DictSet(d, k, v) == [x \in (DOMAIN d) \cup {k} |-> IF x = k THEN v ELSE d[x]]
\* d.get(k)
DictGet(d, k) == IF k \in DOMAIN d THEN Some(d[k]) ELSE None

NaN == [k |-> "nan", n |-> 0, s |-> << >>]
PyStr(t) == [k |-> "str", n |-> 0, s |-> t]
PyInt(i) == [k |-> "int", n |-> i, s |-> << >>]
\* the float h / Scale
PyFloat(h) == [k |-> "float", n |-> h, s |-> << >>]
PyBool(b) == [k |-> "bool", n |-> IF b THEN 1 ELSE 0, s |-> << >>]

\* isinstance(cell, (int, float)): bool is a subclass of int, NaN is a float
isinstance_int_float(cell) == cell.k \in {"int", "float", "bool", "nan"}
\* isinstance(cell, str)
isinstance_str(cell) == cell.k = "str"
\* pd.notna(cell)
notna(cell) == cell.k # "nan"

\* truncation toward zero of h / Scale
Trunc(h) == IF h >= 0 THEN h \div Scale ELSE -((-h) \div Scale)
\* int(cell), for a cell that is an int, a bool or a finite float
int(cell) == IF cell.k = "float" THEN Trunc(cell.n) ELSE cell.n
\* float(cell), in units of 1/Scale
float(cell) == IF cell.k = "float" THEN cell.n ELSE cell.n * Scale

\* str.lower(), one character at a time
LowerChar(ch) ==
    CASE ch = "A" -> "a"
      [] ch = "W" -> "w"
      [] ch = "E" -> "e"
      [] ch = "P" -> "p"
      [] ch = "C" -> "c"
      [] OTHER -> ch
lower(t) == [i \in 1..Len(t) |-> LowerChar(t[i])]
\* sub in t
contains(sub, t) ==
    \E i \in 0..(Len(t) - Len(sub)) : SubSeq(t, i + 1, i + Len(sub)) = sub

----------------------------------------------------------------------------
(* DataFrames: [ncols, rows], rows a sequence of sequences of cells *)

shape0(d) == Len(d.rows)
shape1(d) == d.ncols
\* whether df.iloc[r, c] is inside the frame (it raises IndexError otherwise)
in_frame(d, r, c) == r >= 0 /\ r < shape0(d) /\ c >= 0 /\ c < shape1(d)
\* df.iloc[r, c], 0-based
iloc(d, r, c) == d.rows[r + 1][c + 1]

----------------------------------------------------------------------------
(* _extract_annual_data *)

\* 2008 <= year <= 2035
is_annual_year_lower_only(year) == YEAR_MIN <= year
is_annual_year(year) == YEAR_MIN <= year /\ year <= YEAR_MAX

\* isinstance(year_cell, (int, float)) and pd.notna(year_cell)
year_cell_ok(year_cell) == isinstance_int_float(year_cell) /\ notna(year_cell)

\* pd.notna(val) and isinstance(val, (int, float))
val_ok_notna_only(val) == notna(val)
val_ok(val) == notna(val) /\ isinstance_int_float(val)

IndexError == [raised |-> TRUE, result |-> EmptyDict]

\* the loop `for row_idx in range(df.shape[0])`, from row_idx on
RECURSIVE extract_rows(_, _, _, _)
extract_rows(d, col, row_idx, result) ==
    IF row_idx >= shape0(d) THEN [raised |-> FALSE, result |-> result]
    ELSE IF ~in_frame(d, row_idx, YEAR_COL) THEN IndexError
    ELSE LET year_cell == iloc(d, row_idx, YEAR_COL) IN
         IF year_cell_ok(year_cell) /\ is_annual_year(int(year_cell))
         THEN IF ~in_frame(d, row_idx, col) THEN IndexError
              ELSE LET val == iloc(d, row_idx, col) IN
                   IF val_ok(val)
                   THEN extract_rows(d, col, row_idx + 1,
                                     DictSet(result, int(year_cell), float(val)))
                   ELSE extract_rows(d, col, row_idx + 1, result)
         ELSE extract_rows(d, col, row_idx + 1, result)

_extract_annual_data(d, col) == extract_rows(d, col, 0, EmptyDict)

----------------------------------------------------------------------------
(* _find_column_by_header *)

\* isinstance(cell, str) and header_text.lower() in cell.lower()
cell_matches_case_sensitive(cell, header_text) ==
    isinstance_str(cell) /\ contains(header_text, cell.s)
cell_matches(cell, header_text) ==
    isinstance_str(cell) /\ contains(lower(header_text), lower(cell.s))

\* min(10, df.shape[0])
header_row_limit(d) == IF HEADER_ROWS < shape0(d) THEN HEADER_ROWS ELSE shape0(d)

\* the two nested loops, from cell (row_idx, col_idx) on
RECURSIVE find_from(_, _, _, _)
find_from(d, header_text, row_idx, col_idx) ==
    IF row_idx >= header_row_limit(d) THEN None
    ELSE IF col_idx >= shape1(d) THEN find_from(d, header_text, row_idx + 1, 0)
    ELSE IF cell_matches(iloc(d, row_idx, col_idx), header_text) THEN Some(col_idx)
    ELSE find_from(d, header_text, row_idx, col_idx + 1)

_find_column_by_header(d, header_text) == find_from(d, header_text, 0, 0)

----------------------------------------------------------------------------
(* Header texts the loaders search for, one character standing for a word:  *)
(* "Average weekly earnings growth", "Average earnings growth" and          *)
(* "per cent change".  The second is not a substring of the first.          *)

AVERAGE_WEEKLY_EARNINGS_GROWTH == <<"A", "w", "e">>
AVERAGE_EARNINGS_GROWTH == <<"A", "e">>
PER_CENT_CHANGE == <<"p", "c">>
HeaderTexts ==
    {AVERAGE_WEEKLY_EARNINGS_GROWTH, AVERAGE_EARNINGS_GROWTH, PER_CENT_CHANGE}

----------------------------------------------------------------------------
(* The sheets the sheet-level helpers are run on *)

\* a quarterly label such as "2025Q1"
QuarterLabel == <<"q">>
\* texts found in cells: the three headers in another case and inside longer
\* texts, a fragment that matches none of them, and a quarterly label
CellTexts ==
    {<<"a", "W", "E">>, <<"x", "A", "e">>, <<"P", "c", "x">>, <<"w", "e">>,
     QuarterLabel}

BlankRow(n) == [c \in 1..n |-> NaN]
Put(row, c, cell) == [row EXCEPT ![c + 1] = cell]
Blanks(k, n) == [i \in 1..k |-> BlankRow(n)]

\* what a year cell may hold: nothing, a quarterly label, whole years at and
\* around both ends of the range, floats with a fraction, a boolean
YearCells ==
    {NaN, PyStr(QuarterLabel), PyInt(YEAR_MIN - 1), PyInt(YEAR_MIN),
     PyInt(YEAR_MAX), PyInt(YEAR_MAX + 1), PyFloat(YEAR_MAX * Scale + 1),
     PyFloat(YEAR_MIN * Scale - 1), PyBool(TRUE)}
\* what a value cell may hold
ValCells ==
    {NaN, PyStr(QuarterLabel), PyInt(3), PyFloat(3 * Scale + 1), PyBool(TRUE)}

\* data rows <<label, year, value>>, cut to the width of the sheet
DataRows(n) ==
    {SubSeq(<<NaN, y, v>>, 1, n) : y \in YearCells, v \in ValCells}
ExtractFrames ==
    UNION {{[ncols |-> n, rows |-> rs] :
               rs \in UNION {[1..k -> DataRows(n)] : k \in 0..MaxRows}} :
           n \in 1..3}

\* header rows: one row with up to two texts, then possibly a row with one,
\* under 0 or HEADER_ROWS - 2 .. MaxTop blank rows
TextRows2 ==
    {Put(Put(BlankRow(3), c1, PyStr(t1)), c2, PyStr(t2)) :
        c1 \in 0..2, t1 \in CellTexts, c2 \in 0..2, t2 \in CellTexts}
TextRows1 == {Put(BlankRow(3), c1, PyStr(t1)) : c1 \in 0..2, t1 \in CellTexts}
Tops == {0} \cup ((HEADER_ROWS - 2)..MaxTop)
HeaderFrames ==
    {[ncols |-> 3, rows |-> Blanks(top, 3) \o <<ra>> \o rb] :
        top \in Tops, ra \in TextRows2,
        rb \in {<< >>} \cup {<<r>> : r \in TextRows1}}

EmptyFrame == [ncols |-> 0, rows |-> << >>]
NoReturn == [op |-> "none"]

----------------------------------------------------------------------------
(* Editions, the registry and the cache directory *)

NOVEMBER_2025 == "november-2025"
MARCH_2025 == "march-2025"
\* an edition the registry does not know
JANUARY_2024 == "january-2024"
Editions == {NOVEMBER_2025, MARCH_2025, JANUARY_2024}

\* OBR_URLS: edition -> URL
OBR_URLS ==
    [e \in {NOVEMBER_2025, MARCH_2025} |->
        <<"https://obr.uk/docs/dlm_uploads/Economy_Detailed_forecast_tables_",
          e, ".xlsx">>]
\* OBR_URLS.get(edition)
url_of(edition) == DictGet(OBR_URLS, edition)

\* self.cache_dir / f"obr_{self.edition}_economy.xlsx"
cache_path(edition) == <<"obr_", edition, "_economy.xlsx">>
Paths == {cache_path(e) : e \in Editions}

\* the bytes of a file or of a response body: a workbook (the one published
\* for edition `of`), something that is no workbook, or no file at all
XlsxBytes(e) == [kind |-> "xlsx", of |-> e]
HtmlBytes == [kind |-> "html", of |-> ""]
NoFile == [kind |-> "none", of |-> ""]
\* cache_path.exists()
exists(c, path) == c[path] # NoFile

\* what requests.get(url, allow_redirects=True) may come back with: a final
\* status and a body, or no response at all (status 0: the call raises)
TransportFailure == [status |-> 0, content |-> HtmlBytes]
Responses(edition) ==
    {[status |-> 200, content |-> XlsxBytes(edition)],
     [status |-> 304, content |-> HtmlBytes],
     [status |-> 404, content |-> HtmlBytes],
     [status |-> 500, content |-> HtmlBytes],
     TransportFailure}

\* response.raise_for_status(): HTTPError for 4xx and 5xx, nothing otherwise
raises_for_status(status) == 400 <= status /\ status < 600

----------------------------------------------------------------------------
(* _get_excel_path *)

Outcome(err, c, nreq, nwr) ==
    [raised |-> err, cache |-> c, nrequests |-> nreq, nwrites |-> nwr]

\* the branch taken when the cache file does not exist
download(edition, c, response) ==
    IF url_of(edition) = None THEN Outcome("ValueError", c, 0, 0)
    ELSE IF response = TransportFailure THEN Outcome("ConnectionError", c, 1, 0)
    ELSE IF raises_for_status(response.status) THEN Outcome("HTTPError", c, 1, 0)
    ELSE Outcome("", [c EXCEPT ![cache_path(edition)] = response.content], 1, 1)

\* the whole method, on cache directory c, should the request be answered by
\* `response`: what it raises ("" when it returns cache_path), the directory
\* afterwards, and how many requests and file writes it made
get_excel_path_always_downloads(edition, c, response) ==
    download(edition, c, response)
get_excel_path(edition, c, response) ==
    IF ~exists(c, cache_path(edition)) THEN download(edition, c, response)
    ELSE Outcome("", c, 0, 0)

\* whether the call sends a request at all (the answer matters only then)
sends_request(edition, c) ==
    ~exists(c, cache_path(edition)) /\ url_of(edition) # None
AnswersTo(edition, c) ==
    IF sends_request(edition, c) THEN Responses(edition) ELSE {TransportFailure}

----------------------------------------------------------------------------
(* Workbooks and pd.read_excel *)

SheetNames == {"1.7", "1.6", "1.16"}
NoSheet == [present |-> FALSE, frame |-> EmptyFrame]
Sheet(f) == [present |-> TRUE, frame |-> f]

\* pd.read_excel(excel_path, sheet_name=..., header=None) on a file holding
\* `bytes`, with wb the workbooks by edition: the frame, or an exception when
\* the bytes are no workbook or the workbook has no such sheet
read_excel(wb, bytes, sheet_name) ==
    IF bytes.kind = "xlsx" /\ wb[bytes.of][sheet_name].present
    THEN [ok |-> TRUE, frame |-> wb[bytes.of][sheet_name].frame]
    ELSE [ok |-> FALSE, frame |-> EmptyFrame]

----------------------------------------------------------------------------
(* _load_sheet_1_7, _load_sheet_1_6, _load_sheet_1_16, _load_data *)

\* col_map of _load_sheet_1_7, in iteration order
COL_MAP_SHIFTED ==
    <<<<"rpi", 2>>, <<"cpi", 5>>, <<"cpih", 4>>, <<"mortgage_interest", 7>>,
      <<"rent", 8>>>>
COL_MAP ==
    <<<<"rpi", 2>>, <<"cpi", 4>>, <<"cpih", 5>>, <<"mortgage_interest", 7>>,
      <<"rent", 8>>>>

Loaded(err, data) == [raised |-> err, data |-> data]

\* for metric, col in col_map.items(): self._data[metric] = ..., from item i on
RECURSIVE load_col_map(_, _, _)
load_col_map(frame, data, i) ==
    IF i > Len(COL_MAP) THEN Loaded("", data)
    ELSE LET r == _extract_annual_data(frame, COL_MAP[i][2]) IN
         IF r.raised THEN Loaded("IndexError", data)
         ELSE load_col_map(frame, DictSet(data, COL_MAP[i][1], r.result), i + 1)

_load_sheet_1_7(wb, bytes, data) ==
    LET x == read_excel(wb, bytes, "1.7") IN
    IF ~x.ok THEN Loaded("", data) ELSE load_col_map(x.frame, data, 1)

\* self._data[metric] = self._extract_annual_data(df, col), col found or None
store_located(frame, data, metric, col) ==
    IF col = None THEN Loaded("", data)
    ELSE LET r == _extract_annual_data(frame, col[1]) IN
         IF r.raised THEN Loaded("IndexError", data)
         ELSE Loaded("", DictSet(data, metric, r.result))

\* the column of sheet 1.6: the first header, and if it is not found the second
earnings_column(frame) ==
    LET col == _find_column_by_header(frame, AVERAGE_WEEKLY_EARNINGS_GROWTH) IN
    IF col = None
    THEN _find_column_by_header(frame, AVERAGE_EARNINGS_GROWTH)
    ELSE col

_load_sheet_1_6(wb, bytes, data) ==
    LET x == read_excel(wb, bytes, "1.6") IN
    IF ~x.ok THEN Loaded("", data)
    ELSE store_located(x.frame, data, "average_earnings", earnings_column(x.frame))

_load_sheet_1_16(wb, bytes, data) ==
    LET x == read_excel(wb, bytes, "1.16") IN
    IF ~x.ok THEN Loaded("", data)
    ELSE store_located(x.frame, data, "house_prices",
                       _find_column_by_header(x.frame, PER_CENT_CHANGE))

\* the three loaders in order on the file at excel_path; an exception of one
\* ends the construction
load_sheets(wb, bytes) ==
    LET a == _load_sheet_1_7(wb, bytes, EmptyDict) IN
    IF a.raised # "" THEN a
    ELSE LET b == _load_sheet_1_6(wb, bytes, a.data) IN
         IF b.raised # "" THEN b
         ELSE _load_sheet_1_16(wb, bytes, b.data)

\* __init__ and _load_data: the fetch, then the loaders.  What it raises, the
\* object's _data when it raises nothing, and the fetch's effects
_load_data(wb, edition, c, response) ==
    LET f == get_excel_path(edition, c, response) IN
    IF f.raised # ""
    THEN [raised |-> f.raised, data |-> EmptyDict, cache |-> f.cache,
          nrequests |-> f.nrequests, nwrites |-> f.nwrites]
    ELSE LET l == load_sheets(wb, f.cache[cache_path(edition)]) IN
         [raised |-> l.raised, data |-> IF l.raised = "" THEN l.data ELSE EmptyDict,
          cache |-> f.cache, nrequests |-> f.nrequests, nwrites |-> f.nwrites]

----------------------------------------------------------------------------
(* OBRForecast objects: get, compare_to, available_metrics *)

NoObject == [exists |-> FALSE, edition |-> "", _data |-> EmptyDict]
Object(edition, data) == [exists |-> TRUE, edition |-> edition, _data |-> data]

\* years = [2025, ..., 2030] when years is None
DEFAULT_YEARS == <<2025, 2026, 2027, 2028, 2029, 2030>>
years_or_default(years) == IF years = None THEN DEFAULT_YEARS ELSE years[1]

get_zero_default(self, metric, year) ==
    IF metric \notin DOMAIN self._data THEN None
    ELSE IF year \in DOMAIN self._data[metric]
         THEN Some(self._data[metric][year]) ELSE Some(0)
get(self, metric, year) ==
    IF metric \notin DOMAIN self._data THEN None
    ELSE DictGet(self._data[metric], year)

\* the keys of {y: ... for y in years}
year_keys(years) == {years[i] : i \in 1..Len(years)}
get_series_known_years_only(self, metric, years) ==
    LET ys == years_or_default(years) IN
    IF metric \notin DOMAIN self._data THEN [y \in year_keys(ys) |-> None]
    ELSE [y \in year_keys(ys) \cap DOMAIN self._data[metric] |->
             DictGet(self._data[metric], y)]
get_series(self, metric, years) ==
    LET ys == years_or_default(years) IN
    IF metric \notin DOMAIN self._data THEN [y \in year_keys(ys) |-> None]
    ELSE [y \in year_keys(ys) |-> DictGet(self._data[metric], y)]

available_metrics(self) == DOMAIN self._data

\* a cell of an object column that holds None
NoneCell == [k |-> "None", n |-> 0, s |-> << >>]
\* a column of pd.DataFrame built from a list of Optional[float]: float64 with
\* NaN for None, unless every entry is None (an object column of None)
to_column(values) ==
    IF \A i \in 1..Len(values) : values[i] = None
    THEN [i \in 1..Len(values) |-> NoneCell]
    ELSE [i \in 1..Len(values) |->
             IF values[i] = None THEN NaN ELSE PyFloat(values[i][1])]

\* pd.DataFrame({k1: v1, k2: v2}, index=index): a dict display keeps one
\* entry per key, the later value at the earlier position
DataFrame2(k1, v1, k2, v2, index) ==
    [index |-> index,
     columns |-> IF k1 = k2 THEN <<k1>> ELSE <<k1, k2>>,
     column |-> IF k1 = k2 THEN [k \in {k1} |-> to_column(v2)]
                ELSE [k \in {k1, k2} |-> to_column(IF k = k1 THEN v1 ELSE v2)]]

compare_to(self, other, metric, years) ==
    LET ys == years_or_default(years) IN
    DataFrame2(self.edition, [i \in 1..Len(ys) |-> get(self, metric, ys[i])],
               other.edition, [i \in 1..Len(ys) |-> get(other, metric, ys[i])],
               ys)

----------------------------------------------------------------------------
(* The workbooks the constructor is run on *)

TitleRow(n) == Put(BlankRow(n), 0, PyStr(<<"x">>))
\* the number in column c of the data row tagged `tag`: no two agree
ValueAt(tag, c) == PyFloat((10 * tag + c) * Scale + 1)
\* a data row: the year cell in column 1, numbers from column 2 on
FullRow(n, year_cell, tag) ==
    [c \in 1..n |->
        IF c = 1 THEN NaN ELSE IF c = 2 THEN year_cell ELSE ValueAt(tag, c - 1)]
\* the same with columns 7 and 8 (mortgage interest, rent) left empty
ShortRow(n, year_cell, tag) ==
    [c \in 1..n |->
        IF c = 1 \/ c - 1 >= 7 THEN NaN
        ELSE IF c = 2 THEN year_cell ELSE ValueAt(tag, c - 1)]
QuarterRow(n) == FullRow(n, PyStr(QuarterLabel), 0)

AnnualRows(n) ==
    {FullRow(n, PyInt(2025), 1), ShortRow(n, PyInt(2025), 2),
     FullRow(n, PyInt(2026), 3), ShortRow(n, PyFloat(2026 * Scale + 1), 4)}
\* sheet 1.7: a title row, a quarterly row, up to MaxRows annual rows; 9
\* columns, or 8 (the rent column gone)
Frames17(n) ==
    {[ncols |-> n, rows |-> <<TitleRow(n), QuarterRow(n)>> \o rs] :
        rs \in UNION {[1..k -> AnnualRows(n)] : k \in 0..MaxRows}}
Sheets17 == {NoSheet} \cup {Sheet(f) : f \in Frames17(8) \cup Frames17(9)}

\* sheets 1.6 and 1.16: a header row, a quarterly row, two annual rows
Located(header_row) ==
    Sheet([ncols |-> 4,
           rows |-> <<header_row, QuarterRow(4), FullRow(4, PyInt(2025), 1),
                      FullRow(4, PyInt(2026), 3)>>])
\* a one-column sheet whose only column holds the header
OneColumn(t) == Sheet([ncols |-> 1, rows |-> <<<<PyStr(t)>>, <<NaN>>>>])
Sheets16 ==
    {NoSheet,
     Located(Put(BlankRow(4), 2, PyStr(<<"a", "W", "E">>))),
     Located(Put(BlankRow(4), 3, PyStr(<<"x", "A", "e">>))),
     Located(Put(Put(BlankRow(4), 2, PyStr(<<"x", "A", "e">>)),
                 3, PyStr(<<"a", "W", "E">>))),
     Located(Put(BlankRow(4), 2, PyStr(<<"w", "e">>))),
     OneColumn(<<"a", "W", "E">>)}
Sheets116 ==
    {NoSheet,
     Located(Put(BlankRow(4), 3, PyStr(<<"P", "c", "x">>))),
     Located(Put(BlankRow(4), 2, PyStr(<<"w", "e">>)))}

Workbook(a, b, c) ==
    [n \in SheetNames |-> IF n = "1.7" THEN a ELSE IF n = "1.6" THEN b ELSE c]
Workbooks == {Workbook(a, b, c) : a \in Sheets17, b \in Sheets16, c \in Sheets116}

\* two well-formed workbooks: every sheet present; and one whose mortgage
\* interest and rent stop a year early and whose sheet 1.16 has no header
WorkbookA ==
    Workbook(Sheet([ncols |-> 9,
                    rows |-> <<TitleRow(9), QuarterRow(9),
                               FullRow(9, PyInt(2025), 1),
                               FullRow(9, PyInt(2026), 3)>>]),
             Located(Put(BlankRow(4), 2, PyStr(<<"a", "W", "E">>))),
             Located(Put(BlankRow(4), 3, PyStr(<<"P", "c", "x">>))))
WorkbookB ==
    Workbook(Sheet([ncols |-> 9,
                    rows |-> <<TitleRow(9), QuarterRow(9),
                               FullRow(9, PyInt(2025), 2),
                               ShortRow(9, PyInt(2026), 4)>>]),
             Located(Put(BlankRow(4), 3, PyStr(<<"x", "A", "e">>))),
             Located(Put(BlankRow(4), 2, PyStr(<<"w", "e">>))))

Registered == DOMAIN OBR_URLS
Slots == {"a", "b"}
\* the registered metrics and one that is not
Metrics ==
    {"rpi", "cpi", "cpih", "mortgage_interest", "rent", "average_earnings",
     "house_prices"}
MetricArgs == Metrics \cup {"gdp"}
YearArgs == {2025, 2026, 2030}
YearsArgs ==
    {None, Some(<< >>), Some(<<2025, 2026>>), Some(<<2030, 2025, 2025>>)}

----------------------------------------------------------------------------
(* The operations *)

\* most direct calls of _get_excel_path in a run
MaxCalls == 3

ExtractAnnualData(col) ==
    /\ LET r == _extract_annual_data(df, col) IN
       ret' = [op |-> "_extract_annual_data", col |-> col, raised |-> r.raised,
               result |-> r.result]
    /\ UNCHANGED <<df, published, cache, calls, snap, thread>>

FindColumnByHeader(header_text) ==
    /\ ret' = [op |-> "_find_column_by_header", header_text |-> header_text,
               col |-> _find_column_by_header(df, header_text)]
    /\ UNCHANGED <<df, published, cache, calls, snap, thread>>

\* a direct call of _get_excel_path, recorded in calls
GetExcelPath(edition, response) ==
    /\ Len(calls) < MaxCalls
    /\ response \in AnswersTo(edition, cache)
    /\ LET r == get_excel_path(edition, cache, response)
           call == [op |-> "_get_excel_path", edition |-> edition,
                    before |-> cache[cache_path(edition)],
                    response |-> response, raised |-> r.raised,
                    path |-> IF r.raised = "" THEN Some(cache_path(edition)) ELSE None,
                    nrequests |-> r.nrequests, nwrites |-> r.nwrites,
                    after |-> r.cache[cache_path(edition)]]
       IN /\ cache' = r.cache
          /\ calls' = Append(calls, call)
          /\ ret' = call
    /\ UNCHANGED <<df, published, snap, thread>>

\* snap[slot] = OBRForecast(edition)
New(slot, edition, response) ==
    /\ ~snap[slot].exists
    /\ response \in AnswersTo(edition, cache)
    /\ LET r == _load_data(published, edition, cache, response) IN
       /\ cache' = r.cache
       /\ snap' = IF r.raised = ""
                  THEN [snap EXCEPT ![slot] = Object(edition, r.data)]
                  ELSE snap
       /\ ret' = [op |-> "__init__", slot |-> slot, edition |-> edition,
                  before |-> cache[cache_path(edition)], response |-> response,
                  raised |-> r.raised, nrequests |-> r.nrequests,
                  nwrites |-> r.nwrites]
    /\ UNCHANGED <<df, published, calls, thread>>

Get(slot, metric, year) ==
    /\ snap[slot].exists
    /\ ret' = [op |-> "get", slot |-> slot, metric |-> metric, year |-> year,
               value |-> get(snap[slot], metric, year)]
    /\ UNCHANGED <<df, published, cache, calls, snap, thread>>

GetSeries(slot, metric, years) ==
    /\ snap[slot].exists
    /\ ret' = [op |-> "get_series", slot |-> slot, metric |-> metric,
               years |-> years,
               series |-> get_series(snap[slot], metric, years)]
    /\ UNCHANGED <<df, published, cache, calls, snap, thread>>

CompareTo(slot, other, metric, years) ==
    /\ snap[slot].exists
    /\ snap[other].exists
    /\ ret' = [op |-> "compare_to", slot |-> slot, other |-> other,
               metric |-> metric, years |-> years,
               frame |-> compare_to(snap[slot], snap[other], metric, years)]
    /\ UNCHANGED <<df, published, cache, calls, snap, thread>>

----------------------------------------------------------------------------
(* Concurrent constructions: __init__ step by step *)

Threads == 1..MaxThreads
\* a file that open(cache_path, "wb") has created or truncated and that holds
\* less than a response's content
PartialBytes == [kind |-> "partial", of |-> ""]
\* a file that holds the start of one response and the end of a longer one
MixedBytes == [kind |-> "mixed", of |-> ""]

\* a thread before OBRForecast(edition)
NotStarted ==
    [pc |-> "start", edition |-> "", observed |-> "", content |-> NoFile,
     nrequests |-> 0, nwrites |-> 0, last |-> FALSE, read_partial |-> {},
     raised |-> "", _data |-> EmptyDict]
NoThreads == [t \in Threads |-> NotStarted]

\* the file after f.write(content) at offset 0 and close, when it held
\* `existing`: the content; or, over another content written since this
\* thread opened the file, the content with what is left of a longer one
written_first_writer_wins(existing, content) ==
    IF existing = PartialBytes THEN {content} ELSE {existing}
written(existing, content) ==
    IF existing \in {PartialBytes, content} THEN {content}
    ELSE {content, MixedBytes}

\* where a thread is after a loader: the next loader, or out of __init__
after_loader(self, sheet_name, bytes, r, next) ==
    [self EXCEPT
        !.pc = IF r.raised = "" THEN next ELSE "done",
        !.raised = r.raised,
        !._data = IF r.raised = "" THEN r.data ELSE EmptyDict,
        !.read_partial = IF bytes = PartialBytes THEN @ \cup {sheet_name} ELSE @]

\* the steps of OBRForecast(edition) run by thread t; nothing is locked, so
\* the steps of different threads interleave in any order
Step(t, self) ==
    /\ thread' = [thread EXCEPT ![t] = self]
    /\ UNCHANGED <<df, published, calls, snap, ret>>

\* __init__ up to cache_path
Construct(t, edition) ==
    /\ thread[t].pc = "start"
    /\ Step(t, [thread[t] EXCEPT !.pc = "exists", !.edition = edition])
    /\ UNCHANGED cache

\* if not cache_path.exists(), and the lookup of the url
CachePathExists(t) ==
    LET self == thread[t] IN
    /\ self.pc = "exists"
    /\ Step(t, IF exists(cache, cache_path(self.edition))
               THEN [self EXCEPT !.observed = "present", !.pc = "load_1_7"]
               ELSE IF url_of(self.edition) = None
               THEN [self EXCEPT !.observed = "absent", !.pc = "done",
                                 !.raised = "ValueError"]
               ELSE [self EXCEPT !.observed = "absent", !.pc = "get"])
    /\ UNCHANGED cache

\* requests.get and raise_for_status
RequestsGet(t, response) ==
    LET self == thread[t] IN
    /\ self.pc = "get"
    /\ Step(t, IF response = TransportFailure
               THEN [self EXCEPT !.nrequests = 1, !.pc = "done",
                                 !.raised = "ConnectionError"]
               ELSE IF raises_for_status(response.status)
               THEN [self EXCEPT !.nrequests = 1, !.pc = "done",
                                 !.raised = "HTTPError"]
               ELSE [self EXCEPT !.nrequests = 1, !.pc = "open",
                                 !.content = response.content])
    /\ UNCHANGED cache

\* open(cache_path, "wb")
OpenWb(t) ==
    LET self == thread[t] IN
    /\ self.pc = "open"
    /\ cache' = [cache EXCEPT ![cache_path(self.edition)] = PartialBytes]
    /\ Step(t, [self EXCEPT !.pc = "write"])

\* f.write(response.content) and the end of the with block
WriteClose(t) ==
    LET self == thread[t]
        path == cache_path(self.edition)
    IN
    /\ self.pc = "write"
    /\ \E bytes \in written(cache[path], self.content) :
          cache' = [cache EXCEPT ![path] = bytes]
    /\ thread' = [u \in Threads |->
                     IF u = t
                     THEN [self EXCEPT !.pc = "load_1_7", !.nwrites = 1,
                                       !.last = TRUE]
                     ELSE IF thread[u].edition = self.edition
                     THEN [thread[u] EXCEPT !.last = FALSE]
                     ELSE thread[u]]
    /\ UNCHANGED <<df, published, calls, snap, ret>>

\* the three loaders, each reading the file as it is when it runs
LoadSheet17(t) ==
    LET self == thread[t]
        bytes == cache[cache_path(self.edition)]
    IN
    /\ self.pc = "load_1_7"
    /\ Step(t, after_loader(self, "1.7", bytes,
                            _load_sheet_1_7(published, bytes, self._data),
                            "load_1_6"))
    /\ UNCHANGED cache

LoadSheet16(t) ==
    LET self == thread[t]
        bytes == cache[cache_path(self.edition)]
    IN
    /\ self.pc = "load_1_6"
    /\ Step(t, after_loader(self, "1.6", bytes,
                            _load_sheet_1_6(published, bytes, self._data),
                            "load_1_16"))
    /\ UNCHANGED cache

LoadSheet116(t) ==
    LET self == thread[t]
        bytes == cache[cache_path(self.edition)]
    IN
    /\ self.pc = "load_1_16"
    /\ Step(t, after_loader(self, "1.16", bytes,
                            _load_sheet_1_16(published, bytes, self._data),
                            "done"))
    /\ UNCHANGED cache

----------------------------------------------------------------------------
(* Specifications *)

NoObjects == [s \in Slots |-> NoObject]
\* The accessors and the sheet-level helpers change nothing but ret, so a
\* call made after another one returns what it returns when made first: a run
\* ends with its first such call.
IsAccessorReturn == ret.op \in {"get", "get_series", "compare_to"}
EmptyCache == [p \in Paths |-> NoFile]
\* a cache directory: a registered edition's file is absent, or holds its
\* workbook, or something that is no workbook; a file named after the
\* unregistered edition is absent or holds a workbook
CacheStates ==
    {[p \in Paths |->
        IF p = cache_path(NOVEMBER_2025) THEN a
        ELSE IF p = cache_path(MARCH_2025) THEN b ELSE c] :
        a \in {NoFile, XlsxBytes(NOVEMBER_2025), HtmlBytes},
        b \in {NoFile, XlsxBytes(MARCH_2025)},
        c \in {NoFile, XlsxBytes(NOVEMBER_2025)}}
DefaultPublished ==
    [e \in Registered |-> IF e = NOVEMBER_2025 THEN WorkbookA ELSE WorkbookB]

\* the sheet-level helpers on every generated sheet
InitSheet ==
    /\ df \in ExtractFrames \cup HeaderFrames
    /\ published = DefaultPublished
    /\ cache = EmptyCache
    /\ calls = << >>
    /\ snap = NoObjects
    /\ thread = NoThreads
    /\ ret = NoReturn
NextSheet ==
    /\ ret = NoReturn
    /\ \/ \E col \in 0..3 : ExtractAnnualData(col)
       \/ \E h \in HeaderTexts : FindColumnByHeader(h)
SpecSheet == InitSheet /\ [][NextSheet]_vars

\* direct calls of the fetch step on every cache directory
InitFetch ==
    /\ df = EmptyFrame
    /\ published = DefaultPublished
    /\ cache \in CacheStates
    /\ calls = << >>
    /\ snap = NoObjects
    /\ thread = NoThreads
    /\ ret = NoReturn
NextFetch ==
    \E e \in Editions : \E r \in Responses(e) : GetExcelPath(e, r)
SpecFetch == InitFetch /\ [][NextFetch]_vars

\* one construction from every generated workbook, and lookups in it
InitLoad ==
    /\ df = EmptyFrame
    /\ published \in {[e \in Registered |->
                          IF e = NOVEMBER_2025 THEN w ELSE WorkbookB] :
                      w \in Workbooks}
    /\ cache \in {EmptyCache,
                  [EmptyCache EXCEPT ![cache_path(NOVEMBER_2025)] =
                      XlsxBytes(NOVEMBER_2025)]}
    /\ calls = << >>
    /\ snap = NoObjects
    /\ thread = NoThreads
    /\ ret = NoReturn
NextLoad ==
    /\ ~IsAccessorReturn
    /\ \/ \E r \in Responses(NOVEMBER_2025) : New("a", NOVEMBER_2025, r)
       \/ \E m \in MetricArgs : \E y \in YearArgs : Get("a", m, y)
SpecLoad == InitLoad /\ [][NextLoad]_vars

\* two objects, of any editions, on every cache directory
Init ==
    /\ df = EmptyFrame
    /\ published \in [Registered -> {WorkbookA, WorkbookB}]
    /\ cache \in CacheStates
    /\ calls = << >>
    /\ snap = NoObjects
    /\ thread = NoThreads
    /\ ret = NoReturn
Next ==
    /\ ~IsAccessorReturn
    /\ \/ \E s \in Slots : \E e \in Editions : \E r \in Responses(e) : New(s, e, r)
       \/ \E s \in Slots : \E m \in MetricArgs : \E y \in YearArgs : Get(s, m, y)
       \/ \E s \in Slots :
             \E m \in {"cpi", "house_prices", "gdp"} : \E ys \in YearsArgs :
                GetSeries(s, m, ys)
       \/ \E s \in Slots : \E o \in Slots :
             \E m \in {"cpi", "mortgage_interest", "gdp"} : \E ys \in YearsArgs :
                CompareTo(s, o, m, ys)
Spec == Init /\ [][Next]_vars

\* threads that construct the same edition at the same time, the cache
\* directory empty at first
RaceEditions == {NOVEMBER_2025}
InitRace ==
    /\ df = EmptyFrame
    /\ published = DefaultPublished
    /\ cache = EmptyCache
    /\ calls = << >>
    /\ snap = NoObjects
    /\ thread = NoThreads
    /\ ret = NoReturn
NextRace ==
    \E t \in Threads :
        \/ \E e \in RaceEditions : Construct(t, e)
        \/ CachePathExists(t)
        \/ \E r \in Responses(thread[t].edition) : RequestsGet(t, r)
        \/ OpenWb(t)
        \/ WriteClose(t)
        \/ LoadSheet17(t)
        \/ LoadSheet16(t)
        \/ LoadSheet116(t)
SpecRace == InitRace /\ [][NextRace]_vars

----------------------------------------------------------------------------
(* What the claims speak of, stated on the sheet itself *)

\* a cell that holds a number: an int or a float that is not NaN (a bool is
\* an int to Python)
IsNumber(cell) == cell.k \in {"int", "float", "bool"}
IsTextOrMissing(cell) == cell.k \in {"str", "nan"}
\* the number in the cell, in units of 1/Scale
Scaled(cell) == IF cell.k = "float" THEN cell.n ELSE Scale * cell.n
\* the whole part of the number in the cell (no cell is negative)
WholeYear(cell) == Scaled(cell) \div Scale
RowsOf(d) == 0..(shape0(d) - 1)
ColsOf(d) == 0..(shape1(d) - 1)
YearCellOf(d, r) == d.rows[r + 1][YEAR_COL + 1]
\* the rows recorded for column c: a year cell holding a number whose whole
\* year is in range, and a number in column c
Recorded(d, c) ==
    {r \in RowsOf(d) :
        /\ shape1(d) > YEAR_COL /\ c < shape1(d)
        /\ IsNumber(YearCellOf(d, r))
        /\ WholeYear(YearCellOf(d, r)) \in YEAR_MIN..YEAR_MAX
        /\ IsNumber(d.rows[r + 1][c + 1])}
Extracted == ret.op = "_extract_annual_data" /\ ~ret.raised

\* C7, as claimed: every key of the series returned by _extract_annual_data
\* is within 2008..2035, and comes from a row whose year-column value itself
\* lies within [2008, 2035].
C7_YearValueInRange ==
    Extracted =>
        \A y \in DOMAIN ret.result :
            /\ y \in YEAR_MIN..YEAR_MAX
            /\ \E r \in Recorded(df, ret.col) :
                  /\ YEAR_MIN * Scale <= Scaled(YearCellOf(df, r))
                  /\ Scaled(YearCellOf(df, r)) <= YEAR_MAX * Scale
                  /\ WholeYear(YearCellOf(df, r)) = y
                  /\ Scaled(df.rows[r + 1][ret.col + 1]) = ret.result[y]

\* C7, amended: every key of the series returned by _extract_annual_data is
\* within 2008..2035, and comes from a row whose year-column value, truncated
\* to a whole number, is that key.
C7_TruncatedYearInRange ==
    Extracted =>
        \A y \in DOMAIN ret.result :
            /\ y \in YEAR_MIN..YEAR_MAX
            /\ \E r \in Recorded(df, ret.col) :
                  /\ WholeYear(YearCellOf(df, r)) = y
                  /\ Scaled(df.rows[r + 1][ret.col + 1]) = ret.result[y]

\* a sheet with a row just above the range (left out) and a row whose year
\* value lies between 2035 and 2036 (kept, under 2035)
C7_Witness ==
    /\ Extracted
    /\ DOMAIN ret.result = {YEAR_MAX}
    /\ shape1(df) > ret.col /\ ret.col > YEAR_COL
    /\ \E r \in RowsOf(df) :
          /\ YearCellOf(df, r) = PyInt(YEAR_MAX + 1)
          /\ IsNumber(df.rows[r + 1][ret.col + 1])
    /\ \E r \in RowsOf(df) :
          /\ YearCellOf(df, r).k = "float"
          /\ Scaled(YearCellOf(df, r)) > YEAR_MAX * Scale
          /\ IsNumber(df.rows[r + 1][ret.col + 1])

\* C8: a year is a key of the extracted series only if the sheet has a row
\* whose year cell holds a number (for that year) and whose cell in the
\* metric's column holds a number, the one stored; rows whose year cell or
\* value cell is text or empty add nothing, and cause no error: an error
\* comes only from a cell that is outside the sheet.
C8_OnlyAnnualNumericRows ==
    /\ Extracted =>
          /\ \A y \in DOMAIN ret.result :
                \E r \in Recorded(df, ret.col) :
                   /\ WholeYear(YearCellOf(df, r)) = y
                   /\ Scaled(df.rows[r + 1][ret.col + 1]) = ret.result[y]
          /\ (\A r \in RowsOf(df) :
                 \/ IsTextOrMissing(YearCellOf(df, r))
                 \/ ret.col >= shape1(df)
                 \/ IsTextOrMissing(df.rows[r + 1][ret.col + 1]))
             => ret.result = EmptyDict
    /\ (ret.op = "_extract_annual_data" /\ ret.raised) =>
          \/ shape1(df) <= YEAR_COL
          \/ /\ ret.col >= shape1(df)
             /\ \E r \in RowsOf(df) :
                   /\ IsNumber(YearCellOf(df, r))
                   /\ WholeYear(YearCellOf(df, r)) \in YEAR_MIN..YEAR_MAX

\* a sheet with a quarterly row that holds a number, and an annual row
C8_Witness ==
    /\ Extracted
    /\ shape1(df) > ret.col /\ ret.col > YEAR_COL
    /\ Cardinality(DOMAIN ret.result) = 1
    /\ \E r \in RowsOf(df) :
          /\ YearCellOf(df, r).k = "str"
          /\ IsNumber(df.rows[r + 1][ret.col + 1])
    /\ \E r \in Recorded(df, ret.col) : TRUE

\* the same letter, whatever the case
CasePairs == {{"a", "A"}, {"w", "W"}, {"e", "E"}, {"p", "P"}, {"c", "C"}}
SameLetter(a, b) == a = b \/ {a, b} \in CasePairs
\* a text cell that contains header_text, letters compared whatever the case
TextMatches(cell, header_text) ==
    /\ cell.k = "str"
    /\ \E i \in 0..(Len(cell.s) - Len(header_text)) :
          \A j \in 1..Len(header_text) : SameLetter(cell.s[i + j], header_text[j])
\* the matching cells among the first HEADER_ROWS rows
MatchesOf(d, header_text) ==
    {rc \in RowsOf(d) \X ColsOf(d) :
        rc[1] < HEADER_ROWS /\ TextMatches(d.rows[rc[1] + 1][rc[2] + 1], header_text)}
Before(a, b) == a[1] < b[1] \/ (a[1] = b[1] /\ a[2] <= b[2])

\* C9: _find_column_by_header returns the column of the first cell, rows
\* outer and columns inner, among the first 10 rows, whose text contains
\* header_text whatever the case; and None iff no cell of those rows does.
C9_FirstMatchRowMajor ==
    ret.op = "_find_column_by_header" =>
        LET M == MatchesOf(df, ret.header_text) IN
        IF M = {} THEN ret.col = None
        ELSE \E m \in M : (\A o \in M : Before(m, o)) /\ ret.col = Some(m[2])

\* a sheet of more than 10 rows: two matches in row 9, the left one returned,
\* and a matching cell further left in row 10, which is not searched
C9_Witness ==
    /\ ret.op = "_find_column_by_header"
    /\ shape0(df) > HEADER_ROWS
    /\ \E a \in MatchesOf(df, ret.header_text) :
          \E b \in MatchesOf(df, ret.header_text) :
             /\ a[1] = HEADER_ROWS - 1 /\ b[1] = a[1] /\ a[2] < b[2]
             /\ ret.col = Some(a[2])
             /\ \E c \in 0..(a[2] - 1) :
                   TextMatches(df.rows[HEADER_ROWS + 1][c + 1], ret.header_text)

----------------------------------------------------------------------------
(* The fetch step *)

\* two calls in sequence for the same edition
Twice(i) == i + 1 <= Len(calls) /\ calls[i].edition = calls[i + 1].edition

C6_FailedDownloadNotCached ==
    \A i \in 1..Len(calls) :
        (/\ calls[i].before = NoFile
         /\ calls[i].nrequests >= 1
         /\ ~(200 <= calls[i].response.status /\ calls[i].response.status < 300)) =>
            /\ calls[i].raised \in {"HTTPError", "ConnectionError"}
            /\ calls[i].nrequests = 1
            /\ calls[i].nwrites = 0
            /\ calls[i].after = NoFile

----------------------------------------------------------------------------
(* The objects *)

\* C5: constructing an object for an edition that is not in OBR_URLS raises
\* the unknown-edition error whatever the cache directory holds: no request
\* is sent, no file written and no object made.
C5_UnknownEditionAlwaysFails ==
    (ret.op = "__init__" /\ ret.edition \notin Registered) =>
        /\ ret.raised = "ValueError"
        /\ ret.nrequests = 0
        /\ ret.nwrites = 0
        /\ ~snap[ret.slot].exists

\* C1: for a metric that was not loaded, or a year that is no key of its
\* series, get returns None (no number, no error).
C1_AbsentIsNone ==
    ret.op = "get" =>
        LET data == snap[ret.slot]._data IN
        (ret.metric \notin DOMAIN data \/ ret.year \notin DOMAIN data[ret.metric])
            => ret.value = None

\* a loaded metric whose series stops before the year asked for
C1_Witness ==
    /\ ret.op = "get"
    /\ ret.metric = "mortgage_interest"
    /\ ret.metric \in DOMAIN snap[ret.slot]._data
    /\ DOMAIN snap[ret.slot]._data[ret.metric] = {2025}
    /\ ret.year = 2026
    /\ ret.value = None

\* a cell of the table and what get returned: a missing cell for None, the
\* number otherwise
CellShows(cell, value) ==
    IF value = None THEN cell.k \in {"nan", "None"}
    ELSE cell.k = "float" /\ cell.n = value[1]

\* C3: compare_to gives a table with one row per year asked for, indexed by
\* the years, and exactly two columns, one named after each object's
\* edition; each cell shows what that object's get returns.
C3_TwoColumns ==
    ret.op = "compare_to" =>
        LET ys == IF ret.years = None THEN DEFAULT_YEARS ELSE ret.years[1]
            self == snap[ret.slot]
            other == snap[ret.other]
            f == ret.frame
        IN /\ f.index = ys
           /\ Len(f.columns) = 2
           /\ {f.columns[1], f.columns[2]} = {self.edition, other.edition}
           /\ DOMAIN f.column = {self.edition, other.edition}
           /\ \A i \in 1..Len(ys) :
                 /\ Len(f.column[self.edition]) = Len(ys)
                 /\ Len(f.column[other.edition]) = Len(ys)
                 /\ CellShows(f.column[self.edition][i],
                              DictGet(IF ret.metric \in DOMAIN self._data
                                      THEN self._data[ret.metric] ELSE EmptyDict,
                                      ys[i]))
                 /\ CellShows(f.column[other.edition][i],
                              DictGet(IF ret.metric \in DOMAIN other._data
                                      THEN other._data[ret.metric] ELSE EmptyDict,
                                      ys[i]))

----------------------------------------------------------------------------
(* Construction, stated on the workbook itself *)

\* the sheet and the column of each registered metric
SheetOf(m) ==
    IF m = "average_earnings" THEN "1.6"
    ELSE IF m = "house_prices" THEN "1.16" ELSE "1.7"
FixedColumn(m) ==
    CASE m = "rpi" -> 2
      [] m = "cpi" -> 4
      [] m = "cpih" -> 5
      [] m = "mortgage_interest" -> 7
      [] m = "rent" -> 8
\* the column of the first matching cell of the first HEADER_ROWS rows
FirstMatchColumn(d, header_text) ==
    LET M == MatchesOf(d, header_text) IN
    IF M = {} THEN None
    ELSE Some((CHOOSE m \in M : \A o \in M : Before(m, o))[2])
\* the column of metric m in its sheet d, or None when the sheet has none
ColumnOf(m, d) ==
    IF m = "average_earnings"
    THEN IF FirstMatchColumn(d, AVERAGE_WEEKLY_EARNINGS_GROWTH) # None
         THEN FirstMatchColumn(d, AVERAGE_WEEKLY_EARNINGS_GROWTH)
         ELSE FirstMatchColumn(d, AVERAGE_EARNINGS_GROWTH)
    ELSE IF m = "house_prices" THEN FirstMatchColumn(d, PER_CENT_CHANGE)
    ELSE IF FixedColumn(m) < shape1(d) THEN Some(FixedColumn(m)) ELSE None
\* the published value of column c for year y: that of the last row recorded
\* for y, or None when there is none
PublishedValue(d, c, y) ==
    LET rs == {r \in Recorded(d, c) : WholeYear(YearCellOf(d, r)) = y} IN
    IF rs = {} THEN None
    ELSE LET last == CHOOSE r \in rs : \A o \in rs : o <= r IN
         Some(Scaled(d.rows[last + 1][c + 1]))
\* the file an object was loaded from (a cache file is never rewritten)
FileOf(edition) == cache[cache_path(edition)]
\* metric m has no sheet or no column in the file
Unavailable(m, file) ==
    \/ file.kind # "xlsx"
    \/ ~published[file.of][SheetOf(m)].present
    \/ ColumnOf(m, published[file.of][SheetOf(m)].frame) = None

\* C2: for a registered metric and a year for which the metric's sheet has
\* an annual row with a number in the metric's column (2, 4, 5, 7, 8 of sheet
\* 1.7; the header-located column of sheets 1.6 and 1.16), get returns that
\* cell's value (the last such row's, should there be several).
C2_GetReturnsPublishedValue ==
    (ret.op = "get" /\ ret.metric \in Metrics) =>
        LET file == FileOf(snap[ret.slot].edition) IN
        ~Unavailable(ret.metric, file) =>
            LET d == published[file.of][SheetOf(ret.metric)].frame
                c == ColumnOf(ret.metric, d)[1]
            IN PublishedValue(d, c, ret.year) # None
                  => ret.value = PublishedValue(d, c, ret.year)

\* earnings found under the second header, in a sheet 1.7 with annual rows
C2_Witness ==
    /\ ret.op = "get"
    /\ ret.metric = "average_earnings"
    /\ ret.value # None
    /\ LET file == FileOf(snap[ret.slot].edition) IN
       /\ ~Unavailable(ret.metric, file)
       /\ FirstMatchColumn(published[file.of]["1.6"].frame,
                           AVERAGE_WEEKLY_EARNINGS_GROWTH) = None
       /\ "cpi" \in DOMAIN snap[ret.slot]._data
       /\ snap[ret.slot]._data["cpi"] # EmptyDict

\* metric m has no sheet in the file, or its header is not found
NotLocated(m, file) ==
    \/ file.kind # "xlsx"
    \/ ~published[file.of][SheetOf(m)].present
    \/ /\ SheetOf(m) # "1.7"
       /\ ColumnOf(m, published[file.of][SheetOf(m)].frame) = None

\* C10: when the sheet of a registered metric is absent or unreadable, or
\* its column cannot be located, construction still completes, the metric
\* is absent from the object (not in available_metrics, get returns None),
\* and every metric of the other sheets is loaded as published.
C10_MissingMetricTolerated ==
    (ret.op = "__init__"
        /\ ret.raised \notin {"ValueError", "HTTPError", "ConnectionError"}) =>
        LET file == FileOf(ret.edition) IN
        \A m \in Metrics :
            NotLocated(m, file) =>
                /\ ret.raised = ""
                /\ snap[ret.slot].exists
                /\ m \notin available_metrics(snap[ret.slot])
                /\ \A y \in YearArgs : get(snap[ret.slot], m, y) = None
                /\ \A o \in Metrics :
                      (SheetOf(o) # SheetOf(m) /\ ~Unavailable(o, file)) =>
                          LET d == published[file.of][SheetOf(o)].frame
                              c == ColumnOf(o, d)[1]
                          IN /\ o \in available_metrics(snap[ret.slot])
                             /\ \A y \in YEAR_MIN..YEAR_MAX :
                                   DictGet(snap[ret.slot]._data[o], y)
                                      = PublishedValue(d, c, y)

----------------------------------------------------------------------------
(* The series accessor *)

\* the years asked for: the list given, or 2025..2030 when it is omitted
RequestedYears(years) ==
    IF years = None THEN 2025..2030 ELSE {years[1][i] : i \in 1..Len(years[1])}

\* C11: the result of get_series has exactly the requested years as keys
\* (2025..2030 when years is omitted), whether the metric is loaded or not,
\* and its entry for every requested year y equals get(metric, y).
C11_SeriesTotalOverYears ==
    ret.op = "get_series" =>
        /\ DOMAIN ret.series = RequestedYears(ret.years)
        /\ \A y \in RequestedYears(ret.years) :
              ret.series[y] = get(snap[ret.slot], ret.metric, y)

\* a loaded metric asked for the default years, some of them absent from its
\* series and some present
C11_Witness ==
    /\ ret.op = "get_series"
    /\ ret.years = None
    /\ ret.metric \in available_metrics(snap[ret.slot])
    /\ \E y \in DOMAIN ret.series : ret.series[y] = None
    /\ \E y \in DOMAIN ret.series : ret.series[y] # None

----------------------------------------------------------------------------
(* Rows of one year *)

\* the rows recorded for column c under year y
RecordedFor(d, c, y) ==
    {r \in Recorded(d, c) : WholeYear(YearCellOf(d, r)) = y}
LastOf(R) == CHOOSE r \in R : \A o \in R : o <= r

\* C12: when several rows of the sheet are recorded for one year, the
\* extracted series holds for that year the value of the last of them from
\* the top; the value of an earlier row does not survive a later recorded row.
C12_LastRowWins ==
    Extracted =>
        \A y \in YEAR_MIN..YEAR_MAX :
            RecordedFor(df, ret.col, y) # {} =>
                /\ y \in DOMAIN ret.result
                /\ ret.result[y] =
                      Scaled(df.rows[LastOf(RecordedFor(df, ret.col, y)) + 1]
                                    [ret.col + 1])

\* two rows recorded for one year with different values, the lower one kept
C12_Witness ==
    /\ Extracted
    /\ \E y \in DOMAIN ret.result :
          \E a \in RecordedFor(df, ret.col, y) :
             \E b \in RecordedFor(df, ret.col, y) :
                /\ a < b
                /\ Scaled(df.rows[a + 1][ret.col + 1]) # ret.result[y]
                /\ Scaled(df.rows[b + 1][ret.col + 1]) = ret.result[y]

----------------------------------------------------------------------------
(* Concurrent first constructions of one edition *)

\* threads a and b raced to fill the cache file: each saw it absent, sent a
\* request and wrote the file
BothDownloaded(a, b) ==
    /\ a # b
    /\ thread[a].edition = thread[b].edition
    /\ \A t \in {a, b} :
          /\ thread[t].observed = "absent"
          /\ thread[t].nrequests = 1
          /\ thread[t].nwrites = 1
\* the thread that wrote the cache file of the edition last
LastWriters(e) == {t \in Threads : thread[t].edition = e /\ thread[t].last}
\* thread t found the file present and read sheet 1.7 from it when another
\* thread had opened it for writing and not yet written it
ReadPartial(t) ==
    /\ thread[t].observed = "present"
    /\ "1.7" \in thread[t].read_partial

\* C13: nothing orders the steps of two threads that construct the same
\* edition for the first time.  A thread writes the cache file whenever it
\* saw the file absent and its download succeeded, whatever other threads
\* did meanwhile; the closed file holds what the last writer wrote (or, when
\* two writers' contents differ, possibly a mix); and a thread that found the
\* file present reads it as it is: a sheet read while the file is partly
\* written yields none of its metrics, and the construction still succeeds.
C13_UnlockedCachePopulation ==
    /\ \A t \in Threads :
          /\ thread[t].nwrites = 1 =>
                thread[t].observed = "absent" /\ thread[t].nrequests = 1
          /\ thread[t].observed = "present" =>
                thread[t].nrequests = 0 /\ thread[t].nwrites = 0
          /\ (thread[t].pc \in {"load_1_7", "load_1_6", "load_1_16"}
                  /\ thread[t].observed = "absent") => thread[t].nwrites = 1
          /\ \A m \in Metrics :
                SheetOf(m) \in thread[t].read_partial =>
                    m \notin DOMAIN thread[t]._data
          /\ thread[t].read_partial # {} => thread[t].raised = ""
    /\ \A e \in RaceEditions :
          LET file == cache[cache_path(e)] IN
          /\ file = NoFile => LastWriters(e) = {}
          /\ (file # NoFile /\ file # PartialBytes) =>
                \E t \in LastWriters(e) :
                    /\ LastWriters(e) = {t}
                    /\ file \in {thread[t].content, MixedBytes}
                    /\ file = MixedBytes =>
                          \E u \in Threads :
                              /\ thread[u].nwrites = 1
                              /\ thread[u].content # thread[t].content

\* two threads both saw the file absent, both downloaded and both wrote it,
\* the file holding what the later one wrote; and a third found the file
\* present and read it while it was partly written
C13_Witness ==
    /\ \E a \in Threads : \E b \in Threads :
          /\ BothDownloaded(a, b)
          /\ thread[b].last
          /\ cache[cache_path(thread[b].edition)] = thread[b].content
    /\ \E c \in Threads : ReadPartial(c)

=============================================================================
